---- MODULE Spec2Model ----
(***************************************************************************)
(* Model of the key-exchange relay in src/main.rs: the handshake store     *)
(* (AppState.key_exchanges, a Mutex<HashMap<String, KeyExchange>>), the    *)
(* three handlers that drive a handshake (init_key_exchange,               *)
(* pair_exchange, complete_exchange) running on concurrent workers, the    *)
(* three list handlers, cleanup_expired_exchanges, and the mailbox store   *)
(* (AppState.messages) with store_message and get_messages.                *)
(*                                                                         *)
(* Option<T> is modelled as a sequence: <<>> is None, <<v>> is Some(v).    *)
(* A HashMap is a function whose DOMAIN is the set of keys present.        *)
(* Utc::now() is the variable now, counted in units of 24 hours.           *)
(***************************************************************************)
EXTENDS Integers, Sequences, FiniteSets, TLC

VARIABLES
    key_exchanges,       \* AppState.key_exchanges: the map inside the mutex
    key_exchanges_lock,  \* who holds AppState.key_exchanges' mutex
    now,                 \* the wall clock read by Utc::now()
    pc,                  \* position of every worker and of the cleanup task
    req,                 \* the request a worker is serving
    resp,                \* the response a worker returned for req
    expiry_time,         \* cleanup_expired_exchanges' local expiry_time
    calls,               \* number of requests the server has received
    listed,              \* the (id, conv) pairs a list handler returned
    fetched,             \* the messages get_messages returned
    messages,            \* AppState.messages: the map inside the mutex
    messages_lock,       \* who holds AppState.messages' mutex
    accepted             \* history: every Message pushed, in push order

vars == <<key_exchanges, key_exchanges_lock, now, pc, req, resp, expiry_time,
          calls, listed, fetched, messages, messages_lock, accepted>>

----------------------------------------------------------------------------
(* Bounds and inputs *)

MaxClock == 2

MaxCalls == 4

\* chrono::Duration::hours(24), in clock units of 24 hours
ExpiryWindow == 1

Workers == {"w1", "w2"}

Sweeper == "sweeper"

NoHolder == "free"

\* the (initiator, responder) identifier pairs that requests name
Pairs == {<<"A", "B">>, <<"B", "A">>}

\* identifier pairs in which one identifier contains the character ':';
\* the server takes any string as an identifier
ColonPairs == {<<"a", "a:a">>, <<"a:a", "a">>}

\* (initiator_kyber_pubkey, initiator_signature) of the init requests that
\* reach worker w; the opaque strings are tagged with the worker so that the
\* writes of two requests in flight can be told apart
InitPayloads(w) == {<<"kx-" \o w, "isig-" \o w>>}

\* (encapsulated_secret, responder_signature) of the pair requests that
\* reach worker w
PairPayloads(w) == {<<"sec-" \o w, "rsig-" \o w>>}

None == <<>>

Some(v) == <<v>>

NoRequest == [op |-> "none"]

\* a response is modelled by its status code
NoResponse == "none"

MailboxOps_None == {}

\* the requests whose handlers lock AppState.messages
MailboxOps == {"store", "fetch"}

----------------------------------------------------------------------------
(* Pure parts of the handlers *)

\* format!("{}:{}", initiator_falcon_pubkey, responder_falcon_pubkey)
MakeKey(initiator, responder) == initiator \o ":" \o responder

exchange_id(r) == MakeKey(r.initiator_falcon_pubkey, r.responder_falcon_pubkey)

\* HashMap::insert
Insert(m, k, v) == [x \in DOMAIN m \cup {k} |-> IF x = k THEN v ELSE m[x]]

\* the KeyExchange literal built by init_key_exchange
NewKeyExchange(r, t) ==
    [initiator_falcon_pubkey |-> r.initiator_falcon_pubkey,
     responder_falcon_pubkey |-> r.responder_falcon_pubkey,
     initiator_kyber_pubkey  |-> r.initiator_kyber_pubkey,
     initiator_signature     |-> r.initiator_signature,
     responder_signature     |-> None,
     encapsulated_secret     |-> None,
     status                  |-> "Initiated",
     created_at              |-> t,
     paired_at               |-> None,
     completed_at            |-> None]

init_conflict_Never(existing) == FALSE

init_conflict_AnyActive(existing) == existing.status # "Initiated"

\* existing.status == KeyExchangeStatus::Complete
init_conflict(existing) == existing.status = "Complete"

pair_rejected_OnlyComplete(key_exchange) == key_exchange.status = "Complete"

\* key_exchange.status != KeyExchangeStatus::Initiated
pair_rejected(key_exchange) == key_exchange.status # "Initiated"

complete_rejected_OnlyInitiated(key_exchange) ==
    key_exchange.status = "Initiated"

complete_rejected_OnlyComplete(key_exchange) == key_exchange.status = "Complete"

\* key_exchange.status != KeyExchangeStatus::Paired
complete_rejected(key_exchange) == key_exchange.status # "Paired"

PairUpdate_EarlierTimestamp(key_exchange, r, t) ==
    [key_exchange EXCEPT !.responder_signature = Some(r.responder_signature),
                         !.encapsulated_secret = Some(r.encapsulated_secret),
                         !.status = "Paired",
                         !.paired_at = Some(t - 1)]

PairUpdate_NoTimestamp(key_exchange, r, t) ==
    [key_exchange EXCEPT !.responder_signature = Some(r.responder_signature),
                         !.encapsulated_secret = Some(r.encapsulated_secret),
                         !.status = "Paired"]

\* the four assignments of pair_exchange
PairUpdate(key_exchange, r, t) ==
    [key_exchange EXCEPT !.responder_signature = Some(r.responder_signature),
                         !.encapsulated_secret = Some(r.encapsulated_secret),
                         !.status = "Paired",
                         !.paired_at = Some(t)]

CompleteUpdate_NoTimestamp(key_exchange, t) ==
    [key_exchange EXCEPT !.status = "Complete"]

\* the two assignments of complete_exchange
CompleteUpdate(key_exchange, t) ==
    [key_exchange EXCEPT !.status = "Complete",
                         !.completed_at = Some(t)]

IsExpired_Inclusive(conv, expiry) ==
    conv.status = "Initiated" /\ conv.created_at <= expiry

IsExpired_AnyStatus(conv, expiry) == conv.created_at < expiry

\* the condition of the closure given to retain
IsExpired(conv, expiry) ==
    conv.status = "Initiated" /\ conv.created_at < expiry

\* key_exchanges.retain(..): an expired entry is marked Expired and dropped
Retain(m, expiry) ==
    [k \in {x \in DOMAIN m : ~IsExpired(m[x], expiry)} |-> m[k]]

MutexAvailable_NoExclusion == TRUE

\* Mutex::lock returns once no other thread holds the guard
MutexAvailable == key_exchanges_lock = NoHolder

----------------------------------------------------------------------------
(* Initial state: main builds AppState with empty maps *)

Init ==
    /\ key_exchanges = [k \in {} |-> 0]
    /\ key_exchanges_lock = NoHolder
    /\ now = 0
    /\ pc = [t \in Workers \cup {Sweeper} |-> "idle"]
    /\ req = [w \in Workers |-> NoRequest]
    /\ resp = [w \in Workers |-> NoResponse]
    /\ expiry_time = None
    /\ calls = 0
    /\ listed = [w \in Workers |-> {}]
    /\ fetched = [w \in Workers |-> <<>>]
    /\ messages = [k \in {} |-> <<>>]
    /\ messages_lock = NoHolder
    /\ accepted = <<>>

----------------------------------------------------------------------------
(* Requests arriving at the routes *)

CanServe(w) == pc[w] \in {"idle", "done"}

Receive(w, r) ==
    /\ CanServe(w)
    /\ calls < MaxCalls
    /\ calls' = calls + 1
    /\ pc' = [pc EXCEPT ![w] = "lock"]
    /\ req' = [req EXCEPT ![w] = r]
    /\ resp' = [resp EXCEPT ![w] = NoResponse]
    /\ listed' = [listed EXCEPT ![w] = {}]
    /\ fetched' = [fetched EXCEPT ![w] = <<>>]
    /\ UNCHANGED <<key_exchanges, key_exchanges_lock, now, expiry_time,
                   messages, messages_lock, accepted>>

\* POST /exchanges/init
ReceiveInitOf(w, named) ==
    \E p \in named, d \in InitPayloads(w) :
        Receive(w, [op |-> "init",
                    initiator_falcon_pubkey |-> p[1],
                    responder_falcon_pubkey |-> p[2],
                    initiator_kyber_pubkey  |-> d[1],
                    initiator_signature     |-> d[2]])

\* POST /exchanges/pair
ReceivePairOf(w, named) ==
    \E p \in named, d \in PairPayloads(w) :
        Receive(w, [op |-> "pair",
                    initiator_falcon_pubkey |-> p[1],
                    responder_falcon_pubkey |-> p[2],
                    encapsulated_secret     |-> d[1],
                    responder_signature     |-> d[2]])

\* POST /exchanges/complete
ReceiveCompleteOf(w, named) ==
    \E p \in named :
        Receive(w, [op |-> "complete",
                    initiator_falcon_pubkey |-> p[1],
                    responder_falcon_pubkey |-> p[2]])

ReceiveInit(w) == ReceiveInitOf(w, Pairs)

ReceivePair(w) == ReceivePairOf(w, Pairs)

ReceiveComplete(w) == ReceiveCompleteOf(w, Pairs)

\* data.key_exchanges.lock().unwrap() in a handler
Lock(w) ==
    /\ pc[w] = "lock"
    /\ req[w].op \notin MailboxOps
    /\ MutexAvailable
    /\ key_exchanges_lock' = w
    /\ pc' = [pc EXCEPT ![w] = "check"]
    /\ UNCHANGED <<key_exchanges, now, req, resp, expiry_time, calls, listed, fetched, messages, messages_lock, accepted>>

\* a handler returns: the response goes out and the guard is dropped
Return(w, code) ==
    /\ resp' = [resp EXCEPT ![w] = code]
    /\ pc' = [pc EXCEPT ![w] = "done"]
    /\ key_exchanges_lock' = NoHolder

Proceed(w) ==
    /\ pc' = [pc EXCEPT ![w] = "write"]
    /\ UNCHANGED <<key_exchanges, key_exchanges_lock, resp>>

----------------------------------------------------------------------------
(* init_key_exchange *)

init_key_exchange_check(w) ==
    /\ pc[w] = "check"
    /\ req[w].op = "init"
    /\ LET id == exchange_id(req[w]) IN
       IF id \in DOMAIN key_exchanges /\ init_conflict(key_exchanges[id])
       THEN /\ Return(w, "Conflict")
            /\ UNCHANGED key_exchanges
       ELSE Proceed(w)
    /\ UNCHANGED <<now, req, expiry_time, calls, listed, fetched, messages, messages_lock, accepted>>

init_key_exchange_insert(w) ==
    /\ pc[w] = "write"
    /\ req[w].op = "init"
    /\ LET id == exchange_id(req[w])
           key_exchange == NewKeyExchange(req[w], now) IN
       /\ key_exchanges' = Insert(key_exchanges, id, key_exchange)
       /\ Return(w, "Ok")
    /\ UNCHANGED <<now, req, expiry_time, calls, listed, fetched, messages, messages_lock, accepted>>

----------------------------------------------------------------------------
(* pair_exchange *)

pair_exchange_check(w) ==
    /\ pc[w] = "check"
    /\ req[w].op = "pair"
    /\ LET id == exchange_id(req[w]) IN
       IF id \notin DOMAIN key_exchanges
       THEN /\ Return(w, "NotFound")
            /\ UNCHANGED key_exchanges
       ELSE IF pair_rejected(key_exchanges[id])
       THEN /\ Return(w, "BadRequest")
            /\ UNCHANGED key_exchanges
       ELSE Proceed(w)
    /\ UNCHANGED <<now, req, expiry_time, calls, listed, fetched, messages, messages_lock, accepted>>

pair_exchange_update(w) ==
    /\ pc[w] = "write"
    /\ req[w].op = "pair"
    /\ LET id == exchange_id(req[w])
           key_exchange == PairUpdate(key_exchanges[id], req[w], now) IN
       /\ key_exchanges' = [key_exchanges EXCEPT ![id] = key_exchange]
       /\ Return(w, "Ok")
    /\ UNCHANGED <<now, req, expiry_time, calls, listed, fetched, messages, messages_lock, accepted>>

----------------------------------------------------------------------------
(* complete_exchange *)

complete_exchange_check(w) ==
    /\ pc[w] = "check"
    /\ req[w].op = "complete"
    /\ LET id == exchange_id(req[w]) IN
       IF id \notin DOMAIN key_exchanges
       THEN /\ Return(w, "NotFound")
            /\ UNCHANGED key_exchanges
       ELSE IF complete_rejected(key_exchanges[id])
       THEN /\ Return(w, "BadRequest")
            /\ UNCHANGED key_exchanges
       ELSE Proceed(w)
    /\ UNCHANGED <<now, req, expiry_time, calls, listed, fetched, messages, messages_lock, accepted>>

complete_exchange_update(w) ==
    /\ pc[w] = "write"
    /\ req[w].op = "complete"
    /\ LET id == exchange_id(req[w])
           key_exchange == CompleteUpdate(key_exchanges[id], now) IN
       /\ key_exchanges' = [key_exchanges EXCEPT ![id] = key_exchange]
       /\ Return(w, "Ok")
    /\ UNCHANGED <<now, req, expiry_time, calls, listed, fetched, messages, messages_lock, accepted>>

----------------------------------------------------------------------------
(* cleanup_expired_exchanges *)

\* data.key_exchanges.lock().unwrap() in the cleanup task
cleanup_lock ==
    /\ pc[Sweeper] = "idle"
    /\ MutexAvailable
    /\ key_exchanges_lock' = Sweeper
    /\ pc' = [pc EXCEPT ![Sweeper] = "retain"]
    /\ UNCHANGED <<key_exchanges, now, req, resp, expiry_time, calls, listed, fetched, messages, messages_lock, accepted>>

\* expiry_time is computed, retain runs, the guard is dropped
cleanup_retain ==
    /\ pc[Sweeper] = "retain"
    /\ expiry_time' = Some(now - ExpiryWindow)
    /\ key_exchanges' = Retain(key_exchanges, now - ExpiryWindow)
    /\ key_exchanges_lock' = NoHolder
    /\ pc' = [pc EXCEPT ![Sweeper] = "idle"]
    /\ UNCHANGED <<now, req, resp, calls, listed, fetched, messages, messages_lock, accepted>>

----------------------------------------------------------------------------
(* cleanup_expired_exchanges, one closure call of retain at a time *)

\* let expiry_time = Utc::now() - chrono::Duration::hours(24)
cleanup_expiry ==
    /\ pc[Sweeper] = "retain"
    /\ expiry_time' = Some(now - ExpiryWindow)
    /\ pc' = [pc EXCEPT ![Sweeper] = "visit"]
    /\ UNCHANGED <<key_exchanges, key_exchanges_lock, now, req, resp, calls,
                   listed, fetched, messages, messages_lock, accepted>>

\* the closure's then-branch up to its assignment:
\* conv.status = KeyExchangeStatus::Expired
retain_mark ==
    /\ pc[Sweeper] = "visit"
    /\ \E k \in DOMAIN key_exchanges :
        /\ IsExpired(key_exchanges[k], expiry_time[1])
        /\ key_exchanges' = [key_exchanges EXCEPT ![k].status = "Expired"]
    /\ pc' = [pc EXCEPT ![Sweeper] = "erase"]
    /\ UNCHANGED <<key_exchanges_lock, now, req, resp, expiry_time, calls,
                   listed, fetched, messages, messages_lock, accepted>>

Erased_Kept(m) == m

\* retain erases the entry for which the closure returned false
Erased(m) == [k \in {x \in DOMAIN m : m[x].status # "Expired"} |-> m[k]]

\* the closure returns false and retain erases the entry
retain_erase ==
    /\ pc[Sweeper] = "erase"
    /\ key_exchanges' = Erased(key_exchanges)
    /\ pc' = [pc EXCEPT ![Sweeper] = "visit"]
    /\ UNCHANGED <<key_exchanges_lock, now, req, resp, expiry_time, calls,
                   listed, fetched, messages, messages_lock, accepted>>

\* the closure returned true for every entry that is left: retain is
\* over, cleanup_expired_exchanges returns and the guard is dropped
cleanup_return ==
    /\ pc[Sweeper] = "visit"
    /\ \A k \in DOMAIN key_exchanges : ~IsExpired(key_exchanges[k], expiry_time[1])
    /\ key_exchanges_lock' = NoHolder
    /\ pc' = [pc EXCEPT ![Sweeper] = "idle"]
    /\ UNCHANGED <<key_exchanges, now, req, resp, expiry_time, calls,
                   listed, fetched, messages, messages_lock, accepted>>

----------------------------------------------------------------------------
(* get_initiated_exchanges, get_paired_exchanges, get_completed_exchanges *)

\* the {pubkey} path segments that list requests carry: a responder
\* identifier and an initiator signature
ListPaths == {"B", "isig-w1"}

\* GET /exchanges/initiated/{pubkey}, /exchanges/paired/{pubkey} and
\* /exchanges/complete/{pubkey}
ReceiveListOf(w, paths) ==
    \E op \in {"initiated", "paired", "completed"}, p \in paths :
        Receive(w, [op |-> op, pubkey |-> p])

ReceiveList(w) == ReceiveListOf(w, ListPaths)

\* the filter closure of get_initiated_exchanges
initiated_filter(conv, responder_falcon_pubkey) ==
    /\ conv.responder_falcon_pubkey = responder_falcon_pubkey
    /\ conv.status = "Initiated"

\* the filter closure of get_paired_exchanges
paired_filter(conv, initiator_signature) ==
    /\ conv.initiator_signature = initiator_signature
    /\ conv.status = "Paired"

\* the filter closure of get_completed_exchanges
completed_filter(conv, responder_falcon_pubkey) ==
    /\ conv.responder_falcon_pubkey = responder_falcon_pubkey
    /\ conv.status = "Complete"

\* .map(|(id, conv)| (id.clone(), conv.clone())).collect(), as a set: the
\* iteration order of a HashMap is unspecified
Collect(m, ids) == {<<id, m[id]>> : id \in ids}

ReturnList(w, found) ==
    /\ listed' = [listed EXCEPT ![w] = found]
    /\ Return(w, "Ok")
    /\ UNCHANGED <<key_exchanges, now, req, expiry_time, calls, fetched,
                   messages, messages_lock, accepted>>

get_initiated_exchanges(w) ==
    /\ pc[w] = "check"
    /\ req[w].op = "initiated"
    /\ ReturnList(w, Collect(key_exchanges,
           {id \in DOMAIN key_exchanges :
               initiated_filter(key_exchanges[id], req[w].pubkey)}))

get_paired_exchanges(w) ==
    /\ pc[w] = "check"
    /\ req[w].op = "paired"
    /\ ReturnList(w, Collect(key_exchanges,
           {id \in DOMAIN key_exchanges :
               paired_filter(key_exchanges[id], req[w].pubkey)}))

get_completed_exchanges(w) ==
    /\ pc[w] = "check"
    /\ req[w].op = "completed"
    /\ ReturnList(w, Collect(key_exchanges,
           {id \in DOMAIN key_exchanges :
               completed_filter(key_exchanges[id], req[w].pubkey)}))

ListHandlers ==
    \E w \in Workers :
        \/ ReceiveList(w)
        \/ get_initiated_exchanges(w)
        \/ get_paired_exchanges(w)
        \/ get_completed_exchanges(w)

----------------------------------------------------------------------------
(* store_message, get_messages *)

\* (from_pubkey, to_pubkey, ciphertext) of the store requests
Mails == {<<"A", "B", "m1">>, <<"A", "B", "m2">>, <<"B", "A", "m3">>}

\* the {recipient} path segments of the fetch requests; nobody writes to "C"
Recipients == {"A", "B", "C"}

\* POST /messages
ReceiveStoreOf(w, mails) ==
    \E m \in mails :
        Receive(w, [op |-> "store",
                    from_pubkey |-> m[1],
                    to_pubkey   |-> m[2],
                    ciphertext  |-> m[3]])

ReceiveStore(w) == ReceiveStoreOf(w, Mails)

\* GET /messages/{recipient}
ReceiveFetchOf(w, recipients) ==
    \E r \in recipients :
        Receive(w, [op |-> "fetch", recipient |-> r])

ReceiveFetch(w) == ReceiveFetchOf(w, Recipients)

\* data.messages.lock().unwrap()
LockMessages(w) ==
    /\ pc[w] = "lock"
    /\ req[w].op \in MailboxOps
    /\ messages_lock = NoHolder
    /\ messages_lock' = w
    /\ pc' = [pc EXCEPT ![w] = "check"]
    /\ UNCHANGED <<key_exchanges, key_exchanges_lock, now, req, resp,
                   expiry_time, calls, listed, fetched, messages, accepted>>

\* the Message literal built by store_message
NewMessage(r, t) ==
    [from_pubkey |-> r.from_pubkey,
     to_pubkey   |-> r.to_pubkey,
     ciphertext  |-> r.ciphertext,
     timestamp   |-> t]

EntryKey_Sender(r) == r.from_pubkey

\* messages.entry(message.to_pubkey.clone())
EntryKey(r) == r.to_pubkey

Push_Front(v, m) == <<m>> \o v

\* Vec::push
Push(v, m) == Append(v, m)

\* .or_insert_with(Vec::new)
OrInsertNew(m, k) == IF k \in DOMAIN m THEN m[k] ELSE <<>>

\* a mailbox handler returns and the guard on messages is dropped
ReturnMail(w, code) ==
    /\ resp' = [resp EXCEPT ![w] = code]
    /\ pc' = [pc EXCEPT ![w] = "done"]
    /\ messages_lock' = NoHolder

store_message(w) ==
    /\ pc[w] = "check"
    /\ req[w].op = "store"
    /\ LET new_message == NewMessage(req[w], now)
           k == EntryKey(req[w]) IN
       /\ messages' = Insert(messages, k, Push(OrInsertNew(messages, k), new_message))
       /\ accepted' = Append(accepted, new_message)
    /\ ReturnMail(w, "Ok")
    /\ UNCHANGED <<key_exchanges, key_exchanges_lock, now, req, expiry_time,
                   calls, listed, fetched>>

get_messages(w) ==
    /\ pc[w] = "check"
    /\ req[w].op = "fetch"
    /\ fetched' = [fetched EXCEPT ![w] =
                     IF req[w].recipient \in DOMAIN messages
                     THEN messages[req[w].recipient]
                     ELSE <<>>]
    /\ ReturnMail(w, "Ok")
    /\ UNCHANGED <<key_exchanges, key_exchanges_lock, now, req, expiry_time,
                   calls, listed, messages, accepted>>

MailHandlers ==
    \E w \in Workers :
        \/ ReceiveStore(w)
        \/ ReceiveFetch(w)
        \/ LockMessages(w)
        \/ store_message(w)
        \/ get_messages(w)

----------------------------------------------------------------------------
(* The wall clock *)

Tick ==
    /\ now < MaxClock
    /\ now' = now + 1
    /\ UNCHANGED <<key_exchanges, key_exchanges_lock, pc, req, resp, expiry_time, calls, listed, fetched, messages, messages_lock, accepted>>

----------------------------------------------------------------------------

Handlers ==
    \E w \in Workers :
        \/ ReceiveInit(w)
        \/ ReceivePair(w)
        \/ ReceiveComplete(w)
        \/ Lock(w)
        \/ init_key_exchange_check(w)
        \/ init_key_exchange_insert(w)
        \/ pair_exchange_check(w)
        \/ pair_exchange_update(w)
        \/ complete_exchange_check(w)
        \/ complete_exchange_update(w)

\* a worker's steps once it has a handshake request
Serve(w) ==
    \/ Lock(w)
    \/ init_key_exchange_check(w)
    \/ init_key_exchange_insert(w)
    \/ pair_exchange_check(w)
    \/ pair_exchange_update(w)
    \/ complete_exchange_check(w)
    \/ complete_exchange_update(w)

Next ==
    \/ Handlers
    \/ cleanup_lock
    \/ cleanup_retain
    \/ Tick

Spec == Init /\ [][Next]_vars

(* The server as main starts it: the routes registered on the HttpServer   *)
(* are the only entry points; nothing spawns cleanup_expired_exchanges.    *)

ServerNext ==
    \/ Handlers
    \/ Tick

\* A worker that has a request makes progress and the clock advances;
\* whether requests arrive at all is up to the clients.
ServerFairness ==
    /\ WF_vars(Tick)
    /\ \A w \in Workers :
        WF_vars(\/ Lock(w)
                \/ init_key_exchange_check(w)
                \/ init_key_exchange_insert(w)
                \/ pair_exchange_check(w)
                \/ pair_exchange_update(w)
                \/ complete_exchange_check(w)
                \/ complete_exchange_update(w))

LiveSpec == Init /\ [][ServerNext]_vars /\ ServerFairness

\* the handshake routes together with the three list routes
ListNext ==
    \/ Handlers
    \/ ListHandlers
    \/ Tick

ListSpec == Init /\ [][ListNext]_vars

\* the handshake routes, called with identifiers that contain ':'
ColonHandlers ==
    \E w \in Workers :
        \/ ReceiveInitOf(w, ColonPairs)
        \/ ReceivePairOf(w, ColonPairs)
        \/ ReceiveCompleteOf(w, ColonPairs)
        \/ Serve(w)

ColonNext ==
    \/ ColonHandlers
    \/ Tick

ColonSpec == Init /\ [][ColonNext]_vars

\* the handshake routes and a cleanup task whose retain is followed
\* closure call by closure call
StepwiseNext ==
    \/ Handlers
    \/ cleanup_lock
    \/ cleanup_expiry
    \/ retain_mark
    \/ retain_erase
    \/ cleanup_return
    \/ Tick

StepwiseSpec == Init /\ [][StepwiseNext]_vars

\* the two mailbox routes
MailNext ==
    \/ MailHandlers
    \/ Tick

MailSpec == Init /\ [][MailNext]_vars

\* one exchange and one mailbox, both of "B", for the requests of AppSpec
AppPairs == {<<"A", "B">>}

AppMails == {<<"A", "B", "m1">>}

\* a request for any of the eight routes
AppRequest(w) ==
    /\ calls < MaxCalls - 1
    /\ \/ ReceiveInitOf(w, AppPairs)
       \/ ReceivePairOf(w, AppPairs)
       \/ ReceiveCompleteOf(w, AppPairs)
       \/ ReceiveListOf(w, {"B"})
       \/ ReceiveStoreOf(w, AppMails)
       \/ ReceiveFetchOf(w, {"B"})

\* a worker's steps once it has a request, whatever the route
AppServe(w) ==
    \/ Serve(w)
    \/ get_initiated_exchanges(w)
    \/ get_paired_exchanges(w)
    \/ get_completed_exchanges(w)
    \/ LockMessages(w)
    \/ store_message(w)
    \/ get_messages(w)

\* all routes of the HttpServer next to the cleanup task
AppNext ==
    \/ \E w \in Workers : AppRequest(w)
    \/ \E w \in Workers : AppServe(w)
    \/ cleanup_lock
    \/ cleanup_retain
    \/ Tick

\* Every thread that can take a step eventually does, and a thread that
\* waits for a mutex gets it if the mutex is free again and again.
AppFairness ==
    /\ \A w \in Workers :
        /\ SF_vars(Lock(w) \/ LockMessages(w))
        /\ WF_vars(AppServe(w))
    /\ WF_vars(cleanup_retain)

AppSpec == Init /\ [][AppNext]_vars /\ AppFairness

----------------------------------------------------------------------------
(* Vocabulary of the properties *)

Keys == {MakeKey(p[1], p[2]) : p \in Pairs}

Absent == "Absent"

StatusOf(m, k) == IF k \in DOMAIN m THEN m[k].status ELSE Absent

InFlight(w) == pc[w] \in {"lock", "check", "write"}

InHandler(w, op) == req[w].op = op /\ pc[w] \in {"check", "write"}

WorkerStep(w) == pc'[w] # pc[w]

Answered(w, op, code) == pc[w] = "done" /\ req[w].op = op /\ resp[w] = code

SweepStep == pc[Sweeper] = "retain" /\ pc'[Sweeper] = "idle"

OthersUnchanged(k) ==
    /\ DOMAIN key_exchanges' \ {k} = DOMAIN key_exchanges \ {k}
    /\ \A x \in DOMAIN key_exchanges \ {k} : key_exchanges'[x] = key_exchanges[x]

----------------------------------------------------------------------------
(* C1 *)

ForwardMoves ==
    {<<Absent, "Initiated">>, <<"Initiated", "Paired">>,
     <<"Paired", "Complete">>, <<"Initiated", Absent>>}

\* C1 as stated: in every step the status held under a pair key stays the
\* same, is created as Initiated, or moves Initiated->Paired,
\* Paired->Complete or Initiated->removed; never backwards.
C1_StatusOnlyForward ==
    [][\A k \in Keys :
        LET a == StatusOf(key_exchanges, k)
            b == StatusOf(key_exchanges', k)
        IN  a = b \/ <<a, b>> \in ForwardMoves]_vars

WrittenBy(op, k) ==
    \E w \in Workers :
        /\ req[w].op = op
        /\ exchange_id(req[w]) = k
        /\ pc[w] = "write"
        /\ pc'[w] = "done"

\* C1 amended: the status under a pair key stays the same or moves by
\* exactly one of: created as Initiated by Init, Initiated->Paired by Pair,
\* Paired->Complete by Complete, Initiated->removed by the sweep, or
\* Paired->Initiated when Init overwrites a Paired record.
C1_StatusTransitions ==
    [][\A k \in Keys :
        LET a == StatusOf(key_exchanges, k)
            b == StatusOf(key_exchanges', k)
        IN  \/ a = b
            \/ a \in {Absent, "Paired"} /\ b = "Initiated" /\ WrittenBy("init", k)
            \/ a = "Initiated" /\ b = "Paired" /\ WrittenBy("pair", k)
            \/ a = "Paired" /\ b = "Complete" /\ WrittenBy("complete", k)
            \/ a = "Initiated" /\ b = Absent /\ SweepStep]_vars

\* a Pair succeeded on a key and a later Init put the key back to Initiated
C1_Witness ==
    \E t, u \in Workers :
        /\ t # u
        /\ Answered(t, "init", "Ok")
        /\ Answered(u, "pair", "Ok")
        /\ exchange_id(req[t]) = exchange_id(req[u])
        /\ StatusOf(key_exchanges, exchange_id(req[t])) = "Initiated"
        /\ key_exchanges[exchange_id(req[t])].initiator_signature
               = req[t].initiator_signature

----------------------------------------------------------------------------
(* C2 *)

\* C2: of two Pair calls in flight for the same key against an Initiated
\* record, the one that finishes first succeeds and stores its signature
\* and secret with status Paired; the other then finishes with BadRequest
\* (InvalidState) and leaves the store as the first one wrote it.
C2_ConcurrentPairOneWinner ==
    [][\A t, u \in Workers :
        (/\ t # u
         /\ req[t].op = "pair"
         /\ req[u].op = "pair"
         /\ exchange_id(req[t]) = exchange_id(req[u])
         /\ InFlight(u)
         /\ pc'[u] = "done")
        => LET k == exchange_id(req[u]) IN
           /\ (InFlight(t) /\ StatusOf(key_exchanges, k) = "Initiated")
              => /\ resp'[u] = "Ok"
                 /\ key_exchanges'[k].status = "Paired"
                 /\ key_exchanges'[k].responder_signature
                        = Some(req[u].responder_signature)
                 /\ key_exchanges'[k].encapsulated_secret
                        = Some(req[u].encapsulated_secret)
                 /\ InFlight(t)'
           /\ (/\ Answered(t, "pair", "Ok")
               /\ StatusOf(key_exchanges, k) = "Paired"
               /\ key_exchanges[k].responder_signature
                      = Some(req[t].responder_signature))
              => /\ resp'[u] = "BadRequest"
                 /\ key_exchanges' = key_exchanges]_vars

\* one Pair is inside its critical section, past the status check, while
\* another Pair for the same key waits for the mutex
C2_Witness ==
    \E t, u \in Workers :
        /\ t # u
        /\ req[t].op = "pair" /\ pc[t] = "write"
        /\ req[u].op = "pair" /\ pc[u] = "lock"
        /\ exchange_id(req[t]) = exchange_id(req[u])
        /\ StatusOf(key_exchanges, exchange_id(req[t])) = "Initiated"

----------------------------------------------------------------------------
(* C3 *)

\* C3: an Init whose key holds a Complete record returns Conflict and
\* leaves the whole store as it was.
C3_InitOnCompleteConflict ==
    [][\A w \in Workers :
        (/\ InHandler(w, "init")
         /\ WorkerStep(w)
         /\ StatusOf(key_exchanges, exchange_id(req[w])) = "Complete")
        => /\ pc'[w] = "done"
           /\ resp'[w] = "Conflict"
           /\ key_exchanges' = key_exchanges]_vars

C3_Witness ==
    \E w \in Workers :
        /\ Answered(w, "init", "Conflict")
        /\ StatusOf(key_exchanges, exchange_id(req[w])) = "Complete"

----------------------------------------------------------------------------
(* C4 *)

\* C4: an Init whose key is absent or holds an Initiated or Paired record
\* passes the check and then succeeds: the key holds a fresh Initiated
\* record with the call's four fields, created_at = now and the four
\* optional fields absent; the other keys are unchanged.
C4_InitOverwrites ==
    [][\A w \in Workers :
        (/\ InHandler(w, "init")
         /\ WorkerStep(w)
         /\ StatusOf(key_exchanges, exchange_id(req[w]))
                \in {Absent, "Initiated", "Paired"})
        => LET k == exchange_id(req[w]) IN
           IF pc[w] = "check"
           THEN pc'[w] = "write" /\ key_exchanges' = key_exchanges
           ELSE /\ pc'[w] = "done"
                /\ resp'[w] = "Ok"
                /\ k \in DOMAIN key_exchanges'
                /\ key_exchanges'[k] =
                     [initiator_falcon_pubkey |-> req[w].initiator_falcon_pubkey,
                      responder_falcon_pubkey |-> req[w].responder_falcon_pubkey,
                      initiator_kyber_pubkey  |-> req[w].initiator_kyber_pubkey,
                      initiator_signature     |-> req[w].initiator_signature,
                      responder_signature     |-> <<>>,
                      encapsulated_secret     |-> <<>>,
                      status                  |-> "Initiated",
                      created_at              |-> now,
                      paired_at               |-> <<>>,
                      completed_at            |-> <<>>]
                /\ OthersUnchanged(k)]_vars

\* two Inits for one key both succeeded and the record is the later one's,
\* while the other key holds a record of its own
C4_Witness ==
    \E t, u \in Workers :
        /\ t # u
        /\ Answered(t, "init", "Ok")
        /\ Answered(u, "init", "Ok")
        /\ exchange_id(req[t]) = exchange_id(req[u])
        /\ StatusOf(key_exchanges, exchange_id(req[t])) = "Initiated"
        /\ key_exchanges[exchange_id(req[t])].initiator_signature
               = req[t].initiator_signature
        /\ Cardinality(DOMAIN key_exchanges) = 2

----------------------------------------------------------------------------
(* C5 *)

\* C5: Pair on an absent key returns NotFound, on a Paired or Complete
\* record BadRequest (InvalidState), both with the store unchanged; on an
\* Initiated record it passes the check and succeeds, setting exactly
\* responder_signature, encapsulated_secret, status = Paired and
\* paired_at = now of that record.
C5_PairOutcome ==
    [][\A w \in Workers :
        (InHandler(w, "pair") /\ WorkerStep(w))
        => LET k == exchange_id(req[w])
               a == StatusOf(key_exchanges, k)
           IN
           IF a = Absent
           THEN /\ pc'[w] = "done"
                /\ resp'[w] = "NotFound"
                /\ key_exchanges' = key_exchanges
           ELSE IF a \in {"Paired", "Complete"}
           THEN /\ pc'[w] = "done"
                /\ resp'[w] = "BadRequest"
                /\ key_exchanges' = key_exchanges
           ELSE IF pc[w] = "check"
           THEN a = "Initiated" /\ pc'[w] = "write" /\ key_exchanges' = key_exchanges
           ELSE /\ a = "Initiated"
                /\ pc'[w] = "done"
                /\ resp'[w] = "Ok"
                /\ k \in DOMAIN key_exchanges'
                /\ key_exchanges'[k] =
                     [initiator_falcon_pubkey |-> key_exchanges[k].initiator_falcon_pubkey,
                      responder_falcon_pubkey |-> key_exchanges[k].responder_falcon_pubkey,
                      initiator_kyber_pubkey  |-> key_exchanges[k].initiator_kyber_pubkey,
                      initiator_signature     |-> key_exchanges[k].initiator_signature,
                      responder_signature     |-> <<req[w].responder_signature>>,
                      encapsulated_secret     |-> <<req[w].encapsulated_secret>>,
                      status                  |-> "Paired",
                      created_at              |-> key_exchanges[k].created_at,
                      paired_at               |-> <<now>>,
                      completed_at            |-> key_exchanges[k].completed_at]
                /\ OthersUnchanged(k)]_vars

\* one Pair succeeded, one found no record, and one key holds a record
\* that is no longer Initiated
C5_Witness ==
    \E t, u \in Workers :
        /\ Answered(t, "pair", "Ok")
        /\ Answered(u, "pair", "NotFound")
        /\ StatusOf(key_exchanges, exchange_id(req[t])) = "Paired"
        /\ StatusOf(key_exchanges, exchange_id(req[u])) = Absent

----------------------------------------------------------------------------
(* C6 *)

\* C6: Complete on an absent key returns NotFound, on an Initiated or
\* Complete record BadRequest (InvalidState), both with the store
\* unchanged; on a Paired record it passes the check and succeeds,
\* changing only status (Complete) and completed_at (now) of that record.
C6_CompleteOutcome ==
    [][\A w \in Workers :
        (InHandler(w, "complete") /\ WorkerStep(w))
        => LET k == exchange_id(req[w])
               a == StatusOf(key_exchanges, k)
           IN
           IF a = Absent
           THEN /\ pc'[w] = "done"
                /\ resp'[w] = "NotFound"
                /\ key_exchanges' = key_exchanges
           ELSE IF a \in {"Initiated", "Complete"}
           THEN /\ pc'[w] = "done"
                /\ resp'[w] = "BadRequest"
                /\ key_exchanges' = key_exchanges
           ELSE IF pc[w] = "check"
           THEN a = "Paired" /\ pc'[w] = "write" /\ key_exchanges' = key_exchanges
           ELSE /\ a = "Paired"
                /\ pc'[w] = "done"
                /\ resp'[w] = "Ok"
                /\ k \in DOMAIN key_exchanges'
                /\ key_exchanges'[k] =
                     [initiator_falcon_pubkey |-> key_exchanges[k].initiator_falcon_pubkey,
                      responder_falcon_pubkey |-> key_exchanges[k].responder_falcon_pubkey,
                      initiator_kyber_pubkey  |-> key_exchanges[k].initiator_kyber_pubkey,
                      initiator_signature     |-> key_exchanges[k].initiator_signature,
                      responder_signature     |-> key_exchanges[k].responder_signature,
                      encapsulated_secret     |-> key_exchanges[k].encapsulated_secret,
                      status                  |-> "Complete",
                      created_at              |-> key_exchanges[k].created_at,
                      paired_at               |-> key_exchanges[k].paired_at,
                      completed_at            |-> <<now>>]
                /\ OthersUnchanged(k)]_vars

\* one Complete succeeded and another was refused on a record that is
\* not Paired
C6_Witness ==
    \E t, u \in Workers :
        /\ Answered(t, "complete", "Ok")
        /\ Answered(u, "complete", "BadRequest")
        /\ StatusOf(key_exchanges, exchange_id(req[t])) = "Complete"

----------------------------------------------------------------------------
(* C7 *)

IsSet(opt) == opt # <<>>

\* C7: in every record, responder_signature, encapsulated_secret and
\* paired_at are set exactly when status is Paired or Complete, and
\* completed_at is set exactly when status is Complete.
C7_OptionalFieldsMatchStatus ==
    \A k \in DOMAIN key_exchanges :
        LET conv == key_exchanges[k]
            paired == conv.status \in {"Paired", "Complete"}
        IN  /\ IsSet(conv.responder_signature) <=> paired
            /\ IsSet(conv.encapsulated_secret) <=> paired
            /\ IsSet(conv.paired_at) <=> paired
            /\ IsSet(conv.completed_at) <=> (conv.status = "Complete")

\* the store holds a Complete record next to an Initiated one
C7_Witness ==
    \E k1, k2 \in DOMAIN key_exchanges :
        /\ key_exchanges[k1].status = "Complete"
        /\ key_exchanges[k2].status = "Initiated"

----------------------------------------------------------------------------
(* C8 *)

\* C8 as stated: a sweep at clock value now removes every Initiated record
\* with created_at = now - W and keeps every Initiated record created later.
C8_BoundaryInclusive ==
    [][SweepStep =>
        \A k \in DOMAIN key_exchanges :
            key_exchanges[k].status = "Initiated"
            => /\ key_exchanges[k].created_at = now - ExpiryWindow
                  => k \notin DOMAIN key_exchanges'
               /\ key_exchanges[k].created_at > now - ExpiryWindow
                  => (k \in DOMAIN key_exchanges'
                      /\ key_exchanges'[k] = key_exchanges[k])]_vars

\* C8 amended: a sweep at clock value now removes every Initiated record
\* with created_at < now - W and keeps, unchanged, every Initiated record
\* with created_at >= now - W: the boundary now - W itself is not expired.
C8_BoundaryExclusive ==
    [][SweepStep =>
        \A k \in DOMAIN key_exchanges :
            key_exchanges[k].status = "Initiated"
            => /\ key_exchanges[k].created_at < now - ExpiryWindow
                  => k \notin DOMAIN key_exchanges'
               /\ key_exchanges[k].created_at >= now - ExpiryWindow
                  => (k \in DOMAIN key_exchanges'
                      /\ key_exchanges'[k] = key_exchanges[k])]_vars

\* a sweep has just run, an Initiated record created exactly at its
\* expiry_time is still there and an older one is gone
C8_Witness ==
    /\ pc[Sweeper] = "idle"
    /\ expiry_time = Some(now - ExpiryWindow)
    /\ \E k \in DOMAIN key_exchanges :
        /\ key_exchanges[k].status = "Initiated"
        /\ key_exchanges[k].created_at = now - ExpiryWindow
    /\ \E w \in Workers :
        /\ Answered(w, "init", "Ok")
        /\ exchange_id(req[w]) \notin DOMAIN key_exchanges

----------------------------------------------------------------------------
(* C9 *)

Settled(m) == {k \in DOMAIN m : m[k].status \in {"Paired", "Complete"}}

\* C9: a sweep leaves the set of Paired and Complete records and all
\* their fields as they were, whatever their age.
C9_SweepKeepsPairedAndComplete ==
    [][SweepStep =>
        /\ Settled(key_exchanges') = Settled(key_exchanges)
        /\ \A k \in Settled(key_exchanges) :
            key_exchanges'[k] = key_exchanges[k]]_vars

\* a sweep has run while a Paired or Complete record was older than its
\* expiry_time, and the record is still there
C9_Witness ==
    /\ pc[Sweeper] = "idle"
    /\ IsSet(expiry_time)
    /\ \E k \in Settled(key_exchanges) :
        key_exchanges[k].created_at < expiry_time[1]

----------------------------------------------------------------------------
(* C10 *)

StaleInitiated(k) ==
    /\ k \in DOMAIN key_exchanges
    /\ key_exchanges[k].status = "Initiated"
    /\ key_exchanges[k].created_at < now - ExpiryWindow

\* C10: in the running server no record stays Initiated and older than
\* the window forever: the periodic sweep eventually removes it.
C10_StaleInitiatedEventuallyRemoved ==
    \A k \in Keys : []<>(~StaleInitiated(k))

----------------------------------------------------------------------------
(* C11 *)

StatusListed(op) ==
    CASE op = "initiated" -> "Initiated"
      [] op = "paired"    -> "Paired"
      [] op = "completed" -> "Complete"

IsListOp(op) == op \in {"initiated", "paired", "completed"}

Responders == {p[2] : p \in Pairs}

\* C11: a list handler for status S called with a responder identifier r
\* returns exactly the (pair key, record) pairs of the store whose record
\* has responder = r and status = S, and changes nothing in the store.
C11_ListByResponderAndStatus ==
    [][\A w \in Workers :
        (/\ IsListOp(req[w].op)
         /\ req[w].pubkey \in Responders
         /\ pc[w] = "check"
         /\ WorkerStep(w))
        => /\ listed'[w] =
                {<<k, key_exchanges[k]>> : k \in
                    {x \in DOMAIN key_exchanges :
                        /\ key_exchanges[x].responder_falcon_pubkey = req[w].pubkey
                        /\ key_exchanges[x].status = StatusListed(req[w].op)}}
           /\ key_exchanges' = key_exchanges]_vars

----------------------------------------------------------------------------
(* C12 *)

IsExchangeOp(op) == op \in {"init", "pair", "complete"}

SameEntry(k) ==
    /\ (k \in DOMAIN key_exchanges') <=> (k \in DOMAIN key_exchanges)
    /\ k \in DOMAIN key_exchanges => key_exchanges'[k] = key_exchanges[k]

\* C12: a step of an Init, Pair or Complete call addressed to (A,B), with
\* A # B, leaves the presence and every field of the record for (B,A)
\* unchanged.
C12_SwappedPairIndependent ==
    [][\A w \in Workers :
        (/\ IsExchangeOp(req[w].op)
         /\ req[w].initiator_falcon_pubkey # req[w].responder_falcon_pubkey
         /\ WorkerStep(w))
        => SameEntry(MakeKey(req[w].responder_falcon_pubkey,
                             req[w].initiator_falcon_pubkey))]_vars

----------------------------------------------------------------------------
(* C18 *)

\* C18: a call only ever writes the store entry of its own ordered pair:
\* the record an Init replaces and the record a Pair or Complete updates
\* carry the initiator and responder named in the call.
C18_KeyIdentifiesPair ==
    [][\A w \in Workers :
        (/\ IsExchangeOp(req[w].op)
         /\ pc[w] = "write"
         /\ pc'[w] = "done"
         /\ exchange_id(req[w]) \in DOMAIN key_exchanges)
        => LET conv == key_exchanges[exchange_id(req[w])] IN
           /\ conv.initiator_falcon_pubkey = req[w].initiator_falcon_pubkey
           /\ conv.responder_falcon_pubkey = req[w].responder_falcon_pubkey]_vars

----------------------------------------------------------------------------
(* C13 *)

MailboxOf(m, r) == IF r \in DOMAIN m THEN m[r] ELSE <<>>

SentTo(log, r) == SelectSeq(log, LAMBDA m : m.to_pubkey = r)

FetchStep(w) == req[w].op = "fetch" /\ pc[w] = "check" /\ WorkerStep(w)

StoreStep(w) == req[w].op = "store" /\ pc[w] = "check" /\ WorkerStep(w)

\* C13: after every step each recipient's mailbox is exactly the messages
\* stored for that recipient, in the order the stores took effect, and a
\* fetch for r answers Ok with that mailbox, the empty sequence when
\* nothing was ever stored for r, and leaves the mailboxes alone.
C13_FetchReturnsStoredInOrder ==
    [][/\ \A r \in Recipients :
            MailboxOf(messages', r) = SentTo(accepted', r)
       /\ DOMAIN messages' \subseteq Recipients
       /\ \A w \in Workers :
            /\ StoreStep(w)
               => /\ Len(accepted') = Len(accepted) + 1
                  /\ accepted'[Len(accepted')].from_pubkey = req[w].from_pubkey
                  /\ accepted'[Len(accepted')].to_pubkey = req[w].to_pubkey
                  /\ accepted'[Len(accepted')].ciphertext = req[w].ciphertext
            /\ FetchStep(w)
               => /\ resp'[w] = "Ok"
                  /\ fetched'[w] = SentTo(accepted, req[w].recipient)
                  /\ messages' = messages]_vars

\* a fetch returned two different messages in store order while the
\* other recipient's mailbox holds a message of its own
C13_Witness ==
    \E w \in Workers :
        /\ Answered(w, "fetch", "Ok")
        /\ Len(fetched[w]) = 2
        /\ fetched[w][1].ciphertext # fetched[w][2].ciphertext
        /\ fetched[w] = SentTo(accepted, req[w].recipient)
        /\ Len(accepted) = 3

----------------------------------------------------------------------------
(* C16 *)

IsPrefix(a, b) == Len(a) <= Len(b) /\ \A i \in 1..Len(a) : a[i] = b[i]

\* C16: in every step each mailbox before the step is a prefix of the
\* mailbox after it; a mailbox grows only in a store_message step, and
\* then only the named recipient's, by one message at the end; timestamps
\* within a mailbox never decrease.
C16_MailboxAppendOnly ==
    [][/\ \A r \in DOMAIN messages :
            /\ r \in DOMAIN messages'
            /\ IsPrefix(messages[r], messages'[r])
       /\ \A r \in DOMAIN messages' :
            /\ Len(messages'[r]) # Len(MailboxOf(messages, r))
               => /\ Len(messages'[r]) = Len(MailboxOf(messages, r)) + 1
                  /\ \E w \in Workers : StoreStep(w) /\ req[w].to_pubkey = r
            /\ \A i, j \in 1..Len(messages'[r]) :
                i < j => messages'[r][i].timestamp <= messages'[r][j].timestamp]_vars

\* a mailbox holds two messages accepted at different times
C16_Witness ==
    \E r \in DOMAIN messages :
        /\ Len(messages[r]) >= 2
        /\ messages[r][1].timestamp < messages[r][2].timestamp

----------------------------------------------------------------------------
(* C14 *)

\* C14: with a clock that never goes back, every record has
\* paired_at >= created_at when paired_at is set, and
\* completed_at >= paired_at >= created_at when completed_at is set,
\* a record written over by a later init_key_exchange included.
C14_TimestampsOrdered ==
    \A k \in DOMAIN key_exchanges :
        LET conv == key_exchanges[k] IN
        /\ IsSet(conv.paired_at) => conv.paired_at[1] >= conv.created_at
        /\ IsSet(conv.completed_at)
           => /\ IsSet(conv.paired_at)
              /\ conv.completed_at[1] >= conv.paired_at[1]
              /\ conv.paired_at[1] >= conv.created_at

\* a record created after the clock had moved was paired at a later
\* time and then completed
C14_Witness ==
    \E k \in DOMAIN key_exchanges :
        LET conv == key_exchanges[k] IN
        /\ conv.status = "Complete"
        /\ 0 < conv.created_at
        /\ conv.created_at < conv.paired_at[1]
        /\ conv.paired_at[1] <= conv.completed_at[1]

----------------------------------------------------------------------------
(* C15 *)

PairOn(w, k) == req[w].op = "pair" /\ exchange_id(req[w]) = k

InCriticalSection(w) == pc[w] \in {"check", "write"}

\* C15: a sweep runs only while no handler is between its lock and its
\* return; a pair_exchange that passed its check still finds its record
\* Initiated, answers Ok and leaves it Paired; one that finds no record
\* answers NotFound and creates none; no step turns a missing record into
\* a Paired one; and a sweep keeps a Paired record as it is.
C15_SweepAtomicWithPair ==
    [][\A k \in Keys :
        /\ SweepStep => \A w \in Workers : ~InCriticalSection(w)
        /\ \A w \in Workers :
            /\ (PairOn(w, k) /\ pc[w] = "write")
               => StatusOf(key_exchanges, k) = "Initiated"
            /\ (PairOn(w, k) /\ pc[w] = "write" /\ WorkerStep(w))
               => /\ resp'[w] = "Ok"
                  /\ StatusOf(key_exchanges', k) = "Paired"
            /\ (PairOn(w, k) /\ pc[w] = "check" /\ WorkerStep(w)
                    /\ k \notin DOMAIN key_exchanges)
               => /\ resp'[w] = "NotFound"
                  /\ k \notin DOMAIN key_exchanges'
        /\ StatusOf(key_exchanges, k) = Absent
           => StatusOf(key_exchanges', k) \in {Absent, "Initiated"}
        /\ (SweepStep /\ StatusOf(key_exchanges, k) = "Paired")
           => /\ k \in DOMAIN key_exchanges'
              /\ key_exchanges'[k] = key_exchanges[k]]_vars

\* pair_exchange won the race for a record that was already older than
\* the window: it answered Ok, and the sweep that ran afterwards, whose
\* expiry_time is later than the record's created_at, kept the record
C15_Witness ==
    \E w \in Workers : \E k \in DOMAIN key_exchanges :
        /\ Answered(w, "pair", "Ok")
        /\ PairOn(w, k)
        /\ key_exchanges[k].status = "Paired"
        /\ key_exchanges[k].created_at + ExpiryWindow < key_exchanges[k].paired_at[1]
        /\ IsSet(expiry_time)
        /\ key_exchanges[k].created_at < expiry_time[1]

----------------------------------------------------------------------------
(* C19 *)

InitOn(w, k) == req[w].op = "init" /\ exchange_id(req[w]) = k

\* C19: a record with status Complete is still there, with every field
\* as it was, after every step of any handler or of the sweep, and an
\* init_key_exchange that finds it answers Conflict.
C19_CompleteIsAbsorbing ==
    [][\A k \in DOMAIN key_exchanges :
        key_exchanges[k].status = "Complete"
        => /\ k \in DOMAIN key_exchanges'
           /\ key_exchanges'[k] = key_exchanges[k]
           /\ \A w \in Workers :
                (InitOn(w, k) /\ pc[w] = "check" /\ WorkerStep(w))
                => resp'[w] = "Conflict"]_vars

\* a Complete record older than the window outlived a sweep, and an
\* init_key_exchange for its pair was answered Conflict
C19_Witness ==
    \E w \in Workers : \E k \in DOMAIN key_exchanges :
        /\ key_exchanges[k].status = "Complete"
        /\ IsSet(expiry_time)
        /\ key_exchanges[k].created_at < expiry_time[1]
        /\ InitOn(w, k)
        /\ Answered(w, "init", "Conflict")

----------------------------------------------------------------------------
(* C20 *)

Expired(m) == {k \in DOMAIN m : m[k].status = "Expired"}

\* C20: a record has status Expired only while the cleanup task holds the
\* key_exchanges mutex and is about to erase it: whenever the mutex is
\* free or a handler holds it, no record is Expired.
C20_ExpiredNeverObservable ==
    Expired(key_exchanges) # {}
    => /\ key_exchanges_lock = Sweeper
       /\ pc[Sweeper] = "erase"
       /\ \A w \in Workers : ~InCriticalSection(w)

\* the cleanup task has marked a stale record Expired and not yet erased
\* it, while a pair_exchange for that very record waits for the mutex
C20_Witness ==
    \E w \in Workers :
        /\ pc[w] = "lock"
        /\ req[w].op = "pair"
        /\ exchange_id(req[w]) \in Expired(key_exchanges)

----------------------------------------------------------------------------
(* C17 *)

OnMailbox(w) == req[w].op \in MailboxOps

\* who holds the mutex that worker w needs
HolderFor(w) == IF OnMailbox(w) THEN messages_lock ELSE key_exchanges_lock

CanStep(t) ==
    IF t = Sweeper THEN ENABLED cleanup_retain ELSE ENABLED AppServe(t)

\* a thread holds a mutex exactly while it is between its lock and its
\* return, and then only the mutex of the store its operation is about
OneLockEach ==
    /\ \A w \in Workers :
        /\ key_exchanges_lock = w <=> (InCriticalSection(w) /\ ~OnMailbox(w))
        /\ messages_lock = w <=> (InCriticalSection(w) /\ OnMailbox(w))
    /\ key_exchanges_lock = Sweeper <=> pc[Sweeper] = "retain"
    /\ messages_lock # Sweeper

\* a started operation can take a step, or waits for a mutex whose holder can
NeverStuck ==
    \A w \in Workers :
        InFlight(w)
        => \/ CanStep(w)
           \/ /\ pc[w] = "lock"
              /\ HolderFor(w) # NoHolder
              /\ CanStep(HolderFor(w))

\* each operation touches its own store and its own store's mutex only
StoresApart ==
    /\ \A w \in Workers :
        WorkerStep(w)
        => IF OnMailbox(w) /\ pc[w] # "done" /\ pc[w] # "idle"
           THEN UNCHANGED <<key_exchanges, key_exchanges_lock>>
           ELSE UNCHANGED <<messages, messages_lock>>
    /\ pc'[Sweeper] # pc[Sweeper] => UNCHANGED <<messages, messages_lock>>

\* C17: no thread ever holds both mutexes, or any mutex outside its own
\* critical section; handshake handlers and the cleanup task leave the
\* mailboxes and their mutex alone and mailbox handlers leave the
\* exchanges and their mutex alone; no started operation is ever stuck;
\* and with fair scheduling every started operation returns.
C17_OneLockNoDeadlock ==
    /\ [](OneLockEach /\ NeverStuck)
    /\ [][StoresApart]_vars
    /\ \A w \in Workers : InFlight(w) ~> (pc[w] = "done")
    /\ (pc[Sweeper] = "retain") ~> (pc[Sweeper] = "idle")

\* the cleanup task holds the key_exchanges mutex, a mailbox handler holds
\* the messages mutex, and a handshake handler waits for the first
C17_Witness ==
    /\ key_exchanges_lock = Sweeper
    /\ \E w1, w2 \in Workers :
        /\ messages_lock = w1
        /\ pc[w2] = "lock"
        /\ ~OnMailbox(w2)

====
